---- MODULE Spec2Model ----
(***************************************************************************)
(* Sentinel-Tracker: the console tracker (level1_tracker.py) and the       *)
(* Streamlit dashboard (level2_dashboard.py).                              *)
(*                                                                         *)
(* Money is modelled in whole units (integers) and a percentage as the     *)
(* exact fraction <<numerator, denominator>>; the rounding of the binary   *)
(* floating point that Python uses is outside this model.                  *)
(***************************************************************************)
EXTENDS Integers, Sequences, FiniteSets, TLC

\* ---------------------------------------------------------------- bounds
MaxHoldings == 2     \* keys of the PORTFOLIO table of the console tracker
MaxRows == 2         \* lines of the uploaded CSV file
MaxTime == 300       \* seconds of wall clock a dashboard session is followed

\* ------------------------------------------------- values of the provider
\* dict.get on a key the info dictionary does not hold
Absent == -2
\* a key the info dictionary holds with the value None
None == -1

Tickers == {"A", "B"}
\* f"{ticker}" of a symbol that info.get('symbol') did not find
NoneTicker == "None"

\* quotes (the .info dictionary of one ticker), or the failure of the call
Failed ==
  [fails |-> TRUE, symbol |-> FALSE, currentPrice |-> Absent,
   regularMarketPrice |-> Absent, previousClose |-> Absent]

QuotesA ==
  [fails : {FALSE}, symbol : BOOLEAN, currentPrice : {Absent, None, 7},
   regularMarketPrice : {Absent, None, 6}, previousClose : {None, 0, 5}]
  \cup {Failed}

QuotesB ==
  { Failed,
    [fails |-> FALSE, symbol |-> TRUE, currentPrice |-> 9,
     regularMarketPrice |-> 9, previousClose |-> 10],
    [fails |-> FALSE, symbol |-> TRUE, currentPrice |-> Absent,
     regularMarketPrice |-> Absent, previousClose |-> 10] }

\* the answers of the quote source: one quote for each ticker
MarketOf(a, b) == [t \in Tickers |-> IF t = "A" THEN a ELSE b]

Markets == { MarketOf(a, b) : a \in QuotesA, b \in QuotesB }

ShareVals == {0, 2}
CostVals == {0, 8}

\* ------------------------------------------------------- python helpers
\* bool(x) of a number or None
Truthy(x) == x # Absent /\ x # None /\ x # 0

\* pd.notna(x)
NotNa(x) == x # Absent /\ x # None

\* d.get(key): a missing key reads as None
Get(x) == IF x = Absent THEN None ELSE x

\* d.get(key, default): only a missing key reads as the default
GetDefault(x, default) == IF x = Absent THEN default ELSE x

\* a or b
PyOr(a, b) == IF Truthy(a) THEN a ELSE b

\* (n / d) * 100 as an exact fraction
Percent(n, d) == <<n * 100, d>>

Zero == <<0, 1>>

\* a running total that is overwritten instead of added to
SumColLast(rows, col) == IF rows = <<>> THEN 0 ELSE rows[Len(rows)][col]

RECURSIVE SumCol(_, _)
\* df[col].sum(): the rows are added in the order of the table
SumCol(rows, col) ==
  IF rows = <<>> THEN 0 ELSE Head(rows)[col] + SumCol(Tail(rows), col)

RECURSIVE SumPrevValue(_, _)
\* (df[prev] * df['Shares']).sum()
SumPrevValue(rows, prev) ==
  IF rows = <<>> THEN 0
  ELSE Head(rows)[prev] * Head(rows).Shares + SumPrevValue(Tail(rows), prev)

\* the result of a calculation: None or a table
NoTable == [none |-> TRUE, rows |-> <<>>]
Table(rows) == [none |-> FALSE, rows |-> rows]

NoAgg == [shown |-> FALSE]

\* ------------------------------------------------------ level1_tracker.py
\* the PORTFOLIO literal: a dict, so its keys are distinct
Portfolios ==
  { p \in UNION { [1..n -> [ticker : Tickers, shares : ShareVals, avg_cost : CostVals]]
                  : n \in 0..MaxHoldings } :
      \A i, j \in DOMAIN p : i # j => p[i].ticker # p[j].ticker }

\* portfolio.get(ticker, {}) followed by .get(field, 0)
PortfolioGet(portfolio, ticker, field) ==
  IF \E i \in DOMAIN portfolio : portfolio[i].ticker = ticker
  THEN portfolio[CHOOSE i \in DOMAIN portfolio : portfolio[i].ticker = ticker][field]
  ELSE 0

\* info.get('symbol')
L1Symbol(info, t) == IF info.symbol THEN t ELSE NoneTicker

\* info.get('regularMarketPrice', info.get('currentPrice'))
L1CurrentPrice(info) == GetDefault(info.regularMarketPrice, Get(info.currentPrice))

\* the test without its share count
L1IncludedAnyShares(current_price, previous_close, shares) ==
  Truthy(current_price) /\ Truthy(previous_close)

\* if current_price and previous_close and shares > 0
L1Included(current_price, previous_close, shares) ==
  Truthy(current_price) /\ Truthy(previous_close) /\ shares > 0

\* the dictionary appended to data
L1Row(ticker, shares, avg_cost, current_price, previous_close) ==
  LET current_value == current_price * shares
      total_cost == avg_cost * shares
      daily_change_value == current_price - previous_close
      profit_loss == current_value - total_cost
  IN [Ticker |-> ticker, Shares |-> shares,
      CurrentPrice |-> current_price, PrevClose |-> previous_close,
      CurrentValue |-> current_value, TotalCost |-> total_cost,
      DailyChange |-> daily_change_value * shares,
      DailyPct |-> Percent(daily_change_value, previous_close),
      TotalPL |-> profit_loss,
      TotalPLPct |-> IF total_cost > 0 THEN Percent(profit_loss, total_cost) ELSE Zero]

RECURSIVE L1Loop(_, _, _, _, _)
\* for info in stock_data: ... ; acc holds data and the printed warnings
L1Loop(portfolio, market, i, data, warned) ==
  IF i > Len(portfolio) THEN [data |-> data, warnings |-> warned]
  ELSE
    LET info == market[portfolio[i].ticker]
        ticker == L1Symbol(info, portfolio[i].ticker)
        current_price == L1CurrentPrice(info)
        previous_close == Get(info.previousClose)
        shares == PortfolioGet(portfolio, ticker, "shares")
        avg_cost == PortfolioGet(portfolio, ticker, "avg_cost")
    IN IF L1Included(current_price, previous_close, shares)
       THEN L1Loop(portfolio, market, i + 1,
                   Append(data, L1Row(ticker, shares, avg_cost, current_price, previous_close)),
                   warned)
       ELSE L1Loop(portfolio, market, i + 1, data,
                   Append(warned, [ticker |-> ticker, kind |-> "incomplete"]))

\* the DataFrame of data also when data is empty
L1ResultAlwaysTable(data) == Table(data)

\* if not data: return None; otherwise the DataFrame of data
L1Result(data) == IF data = <<>> THEN NoTable ELSE Table(data)

\* stock_data = [yf.Ticker(t).info for t in tickers] raises when one call does
L1FetchRaises(portfolio, market) ==
  \E i \in DOMAIN portfolio : market[portfolio[i].ticker].fails

\* the aggregate block of display_summary
L1Aggregate(rows) ==
  LET total_value == SumCol(rows, "CurrentValue")
      total_cost == SumCol(rows, "TotalCost")
      total_daily_gain == SumCol(rows, "DailyChange")
      total_prev_value == SumPrevValue(rows, "PrevClose")
  IN [shown |-> TRUE, total_value |-> total_value, total_cost |-> total_cost,
      total_daily_gain |-> total_daily_gain,
      total_prev_value |-> total_prev_value,
      portfolio_daily_percent |->
        IF total_prev_value > 0 THEN Percent(total_daily_gain, total_prev_value) ELSE Zero,
      total_pl |-> total_value - total_cost]

\* --------------------------------------------------- level2_dashboard.py
\* the text of the Ticker column as the user typed it
RawTickers == {"A", " a", "B"}

\* .str.upper().str.strip() on the texts of RawTickers
UpperStrip(raw) ==
  CASE raw = "A" -> "A"
    [] raw = " a" -> "A"
    [] raw = "B" -> "B"

CsvRows == [ticker : RawTickers, shares : ShareVals, avg_cost : CostVals]

\* no file in the uploader, a file pd.read_csv rejects, or the lines of a file
NoFile == [kind |-> "none", lines |-> <<>>]
Malformed == [kind |-> "malformed", lines |-> <<>>]
CsvFile(lines) == [kind |-> "csv", lines |-> lines]

Uploads ==
  {NoFile, Malformed} \cup
  { CsvFile(l) : l \in UNION { [1..n -> CsvRows] : n \in 0..MaxRows } }

RECURSIVE FilterPositive(_)
\* df = df[df['Shares'] > 0], then the Ticker column canonicalised
FilterPositive(lines) ==
  IF lines = <<>> THEN <<>>
  ELSE LET l == Head(lines)
       IN IF l.shares > 0
          THEN <<[Ticker |-> UpperStrip(l.ticker), Shares |-> l.shares,
                  Avg_Cost |-> l.avg_cost]>> \o FilterPositive(Tail(lines))
          ELSE FilterPositive(Tail(lines))

\* parse_portfolio_input: the table handed on, and whether st.error was shown
parse_portfolio_input(uploaded) ==
  CASE uploaded.kind = "none" -> [df |-> <<>>, error |-> FALSE]
    [] uploaded.kind = "malformed" -> [df |-> <<>>, error |-> TRUE]
    [] OTHER -> [df |-> FilterPositive(uploaded.lines), error |-> FALSE]

\* ticker_info.get('currentPrice') or ticker_info.get('regularMarketPrice')
L2CurrentPrice(info) == PyOr(Get(info.currentPrice), Get(info.regularMarketPrice))

\* if pd.notna(current_price) and pd.notna(prev_close)
L2Included(current_price, prev_close) == NotNa(current_price) /\ NotNa(prev_close)

\* the row with the cost of one share as the total cost
L2RowCostPerShare(ticker, shares, avg_cost, current_price, prev_close) ==
  LET current_value == current_price * shares
      total_cost == avg_cost
      daily_change_value == current_price - prev_close
      total_pl == current_value - total_cost
  IN [Ticker |-> ticker, Shares |-> shares, Avg_Cost |-> avg_cost,
      CurrentPrice |-> current_price, PreviousClose |-> prev_close,
      CurrentValue |-> current_value, TotalCost |-> total_cost,
      DailyGainLoss |-> daily_change_value * shares,
      DailyPct |-> Percent(daily_change_value, prev_close),
      TotalPL |-> total_pl,
      TotalPLPct |-> IF total_cost > 0 THEN Percent(total_pl, total_cost) ELSE Zero]

\* the dictionary appended to results
L2Row(ticker, shares, avg_cost, current_price, prev_close) ==
  LET current_value == current_price * shares
      total_cost == avg_cost * shares
      daily_change_value == current_price - prev_close
      total_pl == current_value - total_cost
  IN [Ticker |-> ticker, Shares |-> shares, Avg_Cost |-> avg_cost,
      CurrentPrice |-> current_price, PreviousClose |-> prev_close,
      CurrentValue |-> current_value, TotalCost |-> total_cost,
      DailyGainLoss |-> daily_change_value * shares,
      DailyPct |-> Percent(daily_change_value, prev_close),
      TotalPL |-> total_pl,
      TotalPLPct |-> IF total_cost > 0 THEN Percent(total_pl, total_cost) ELSE Zero]

\* what the body of the try block does for one row of the table:
\* "row", "missing" (the else branch) or "error" (the except branch, which
\* the failing call and the division by a zero previous close both reach)
L2Outcome(info) ==
  IF info.fails THEN "error"
  ELSE IF ~L2Included(L2CurrentPrice(info), Get(info.previousClose)) THEN "missing"
  ELSE IF Get(info.previousClose) = 0 THEN "error"
  ELSE "row"

RECURSIVE L2Loop(_, _, _, _, _)
\* for ticker, row in portfolio_df.iterrows()
L2Loop(df, market, i, results, warned) ==
  IF i > Len(df) THEN [results |-> results, warnings |-> warned]
  ELSE
    LET ticker == df[i].Ticker
        info == market[ticker]
        outcome == L2Outcome(info)
    IN IF outcome = "row"
       THEN L2Loop(df, market, i + 1,
                   Append(results, L2Row(ticker, df[i].Shares, df[i].Avg_Cost,
                                         L2CurrentPrice(info), Get(info.previousClose))),
                   warned)
       ELSE L2Loop(df, market, i + 1, results,
                   Append(warned, [ticker |-> ticker, kind |-> outcome]))

\* if not results: return None; otherwise the DataFrame of results
L2Result(r) ==
  [df |-> IF r.results = <<>> THEN NoTable ELSE Table(r.results),
   warnings |-> r.warnings]

\* get_realtime_data: None or the table, with the st.warning calls it made
get_realtime_data(portfolio_df, market) ==
  IF portfolio_df = <<>> THEN [df |-> NoTable, warnings |-> <<>>]
  ELSE L2Result(L2Loop(portfolio_df, market, 1, <<>>, <<>>))

\* the global metrics of app()
L2Aggregate(rows) ==
  LET total_value == SumCol(rows, "CurrentValue")
      total_cost == SumCol(rows, "TotalCost")
      total_daily_gain == SumCol(rows, "DailyGainLoss")
      total_pl == SumCol(rows, "TotalPL")
      total_prev_value == SumPrevValue(rows, "PreviousClose")
  IN [shown |-> TRUE, total_value |-> total_value, total_cost |-> total_cost,
      total_daily_gain |-> total_daily_gain,
      total_prev_value |-> total_prev_value,
      portfolio_daily_percent |->
        IF total_prev_value > 0 THEN Percent(total_daily_gain, total_prev_value) ELSE Zero,
      total_pl |-> total_pl]

\* refresh_options of app()
ManualOnly == 99999
FiveMinutes == 300
OneMinute == 60
RefreshOptions == {ManualOnly, FiveMinutes, OneMinute}

\* the store behind @st.cache_data: the ttl it was created with and its entries
EmptyCache(ttl) == [ttl |-> ttl, entries |-> {}]

\* the store a run finds: a store created with another ttl is not reused,
\* and an entry is gone once the clock has reached its expiry
LiveStore(store, ttl, clock) ==
  IF store.ttl = ttl
  THEN [store EXCEPT !.entries = { e \in @ : clock < e.expires }]
  ELSE EmptyCache(ttl)

\* a cache hit: the stored value and the warnings recorded with it
Served(store, e) ==
  [store |-> store, df |-> e.value, warnings |-> e.warnings, fetches |-> 0]

\* a cache miss: the result r of get_realtime_data becomes the entry
Stored(store, ttl, clock, config_df, r) ==
  [store |-> [store EXCEPT !.entries =
                @ \cup {[key |-> config_df, value |-> r.df, warnings |-> r.warnings,
                         expires |-> clock + ttl]}],
   df |-> r.df, warnings |-> r.warnings, fetches |-> 1]

\* the lookup of the table in the store, and the call on a miss
Lookup(store, ttl, clock, config_df, market) ==
  IF \E e \in store.entries : e.key = config_df
  THEN Served(store, CHOOSE e \in store.entries : e.key = config_df)
  ELSE Stored(store, ttl, clock, config_df, get_realtime_data(config_df, market))

\* the cached fetch with entries that never expire
cached_fetch_without_expiry(store, ttl, clock, config_df, market) ==
  Lookup(IF store.ttl = ttl THEN store ELSE EmptyCache(ttl),
         ttl, clock, config_df, market)

\* cached_realtime_fetch(config_df) under @st.cache_data(ttl=refresh_ttl)
cached_realtime_fetch(store, ttl, clock, config_df, market) ==
  Lookup(LiveStore(store, ttl, clock), ttl, clock, config_df, market)

\* the part of app() after the cached fetch returned f
Render(f, ttl, pressed) ==
  IF f.df.none \/ f.df.rows = <<>>
  THEN [store |-> f.store, df |-> f.df, warnings |-> f.warnings,
        screen |-> "no_data", button |-> FALSE, agg |-> NoAgg,
        fetches |-> f.fetches, rerun |-> FALSE]
  ELSE IF pressed
  THEN [store |-> EmptyCache(ttl), df |-> f.df, warnings |-> f.warnings,
        screen |-> "rerun", button |-> TRUE, agg |-> NoAgg,
        fetches |-> f.fetches, rerun |-> TRUE]
  ELSE [store |-> f.store, df |-> f.df, warnings |-> f.warnings,
        screen |-> "dashboard", button |-> TRUE, agg |-> L2Aggregate(f.df.rows),
        fetches |-> f.fetches, rerun |-> FALSE]

\* the part of app() after parse_portfolio_input returned the table
Parsed(store, portfolio_df_config, ttl, clock, market, pressed) ==
  IF portfolio_df_config = <<>>
  THEN [store |-> store, df |-> NoTable, warnings |-> <<>>,
        screen |-> "upload_prompt", button |-> FALSE, agg |-> NoAgg,
        fetches |-> 0, rerun |-> FALSE]
  ELSE Render(cached_realtime_fetch(store, ttl, clock, portfolio_df_config, market),
              ttl, pressed)

\* one run of the script app(); pressed: the run was started by the
\* Manual Refresh button
app(store, uploaded, ttl, clock, market, pressed) ==
  Parsed(store, parse_portfolio_input(uploaded).df, ttl, clock, market, pressed)

\* st.rerun(): the run r1 is followed by another run
Rerun(r1, r2) == [r2 EXCEPT !.fetches = r1.fetches + @]

\* what follows the run r1
AfterRun(r1, uploaded, ttl, clock, market) ==
  IF r1.rerun
  THEN Rerun(r1, app(r1.store, uploaded, ttl, clock, market, FALSE))
  ELSE r1

\* a run and, after st.rerun(), the run that follows it
app_session(store, uploaded, ttl, clock, market, pressed) ==
  AfterRun(app(store, uploaded, ttl, clock, market, pressed),
           uploaded, ttl, clock, market)

\* -------------------------------------------------------------- the state
VARIABLES
  entry,           \* which script runs: "level1" or "level2"
  market,          \* what the quote source answers for each ticker
  pc,              \* position of the script
  PORTFOLIO,       \* level1: the holdings table
  portfolio_data,  \* level1: what get_portfolio_summary returned
  uploaded_file,   \* level2: the file in the uploader
  refresh_ttl,     \* level2: the selected refresh interval
  now,             \* level2: the wall clock
  cache,           \* level2: the st.cache_data store of cached_realtime_fetch
  realtime_df,     \* level2: the table the last run worked on
  button,          \* level2: the last run rendered the Manual Refresh button
  fetches,         \* level2: calls of get_realtime_data in the last run
  trigger,         \* level2: what started the last run
  warnings,        \* skip warnings of the last run
  screen,          \* what the last run showed
  agg              \* the aggregate block or metric tiles shown

vars == <<entry, market, pc, PORTFOLIO, portfolio_data, uploaded_file, refresh_ttl,
          now, cache, realtime_df, button, fetches, trigger, warnings, screen, agg>>

l1vars == <<PORTFOLIO, portfolio_data>>
l2vars == <<uploaded_file, refresh_ttl, now, cache, realtime_df, button, fetches, trigger>>

InitCommon ==
  /\ pc = "start"
  /\ portfolio_data = NoTable
  /\ refresh_ttl = ManualOnly
  /\ now = 0
  /\ cache = EmptyCache(ManualOnly)
  /\ realtime_df = NoTable
  /\ button = FALSE
  /\ fetches = 0
  /\ trigger = "none"
  /\ warnings = <<>>
  /\ screen = "pending"
  /\ agg = NoAgg

Init ==
  /\ entry \in {"level1", "level2"}
  /\ market \in Markets
  /\ PORTFOLIO \in (IF entry = "level1" THEN Portfolios ELSE {<<>>})
  /\ uploaded_file \in (IF entry = "level2" THEN Uploads ELSE {NoFile})
  /\ InitCommon

\* ------------------------------------------------------ level1: __main__
\* get_portfolio_summary(PORTFOLIO): returns, or raises out of the fetch
L1_GetPortfolioSummary ==
  /\ entry = "level1" /\ pc = "start"
  /\ IF L1FetchRaises(PORTFOLIO, market)
     THEN /\ pc' = "raised"
          /\ UNCHANGED <<portfolio_data, warnings>>
     ELSE \E r \in {L1Loop(PORTFOLIO, market, 1, <<>>, <<>>)} :
             /\ pc' = "summarised"
             /\ portfolio_data' = L1Result(r.data)
             /\ warnings' = r.warnings
  /\ UNCHANGED <<entry, market, PORTFOLIO, screen, agg>>
  /\ UNCHANGED l2vars

\* display_summary(portfolio_data)
L1_DisplaySummary ==
  /\ entry = "level1" /\ pc = "summarised"
  /\ pc' = "done"
  /\ IF portfolio_data.none
     THEN screen' = "no_data" /\ agg' = NoAgg
     ELSE screen' = "aggregate" /\ agg' = L1Aggregate(portfolio_data.rows)
  /\ UNCHANGED <<entry, market, PORTFOLIO, portfolio_data, warnings>>
  /\ UNCHANGED l2vars

\* except Exception as e: print("An error occurred during execution ...")
L1_MainExcept ==
  /\ entry = "level1" /\ pc = "raised"
  /\ pc' = "done"
  /\ screen' = "error"
  /\ UNCHANGED <<entry, market, PORTFOLIO, portfolio_data, warnings, agg>>
  /\ UNCHANGED l2vars

\* ---------------------------------------------------- level2: the session
\* the effect of a script run on the state
L2Run(uploaded, ttl, pressed, why) ==
  \E r \in {app_session(cache, uploaded, ttl, now, market, pressed)} :
     /\ trigger' = why
     /\ cache' = r.store
     /\ realtime_df' = r.df
     /\ warnings' = r.warnings
     /\ screen' = r.screen
     /\ button' = r.button
     /\ agg' = r.agg
     /\ fetches' = r.fetches
     /\ uploaded_file' = uploaded
     /\ refresh_ttl' = ttl
     /\ pc' = "rendered"
     /\ UNCHANGED <<entry, market, now, PORTFOLIO, portfolio_data>>

\* the first run of app() when the page is opened
L2_App ==
  /\ entry = "level2" /\ pc = "start"
  /\ L2Run(uploaded_file, refresh_ttl, FALSE, "open")

Next ==
  \/ L1_GetPortfolioSummary
  \/ L1_DisplaySummary
  \/ L1_MainExcept
  \/ L2_App

Spec == Init /\ [][Next]_vars

\* ------------------------------------------- level2: a dashboard session
\* seconds between two looks at the clock
TickStep == 60

DashQuotesA ==
  { [fails |-> FALSE, symbol |-> TRUE, currentPrice |-> 7,
     regularMarketPrice |-> 6, previousClose |-> 5],
    [fails |-> FALSE, symbol |-> TRUE, currentPrice |-> Absent,
     regularMarketPrice |-> Absent, previousClose |-> None] }

DashQuotesB ==
  { Failed,
    [fails |-> FALSE, symbol |-> TRUE, currentPrice |-> 9,
     regularMarketPrice |-> 9, previousClose |-> 10] }

DashMarkets == { MarketOf(a, b) : a \in DashQuotesA, b \in DashQuotesB }

DashUploads ==
  { NoFile,
    CsvFile(<<[ticker |-> "A", shares |-> 2, avg_cost |-> 8]>>),
    CsvFile(<<[ticker |-> "A", shares |-> 2, avg_cost |-> 8],
              [ticker |-> "B", shares |-> 2, avg_cost |-> 0]>>) }

InitDash ==
  /\ entry = "level2"
  /\ market \in DashMarkets
  /\ PORTFOLIO = <<>>
  /\ uploaded_file \in DashUploads
  /\ InitCommon

\* any interaction that reruns the script with the widgets as they are
L2_Rerun ==
  /\ entry = "level2" /\ pc = "rendered"
  /\ L2Run(uploaded_file, refresh_ttl, FALSE, "rerun")

\* the user presses the Manual Refresh button the last run rendered
L2_ManualRefresh ==
  /\ entry = "level2" /\ pc = "rendered"
  /\ button
  /\ L2Run(uploaded_file, refresh_ttl, TRUE, "manual")

\* the user picks another entry of the Auto-Refresh Interval selectbox, which
\* the last run rendered unless it stopped at the upload prompt
L2_SelectInterval ==
  /\ entry = "level2" /\ pc = "rendered"
  /\ screen # "upload_prompt"
  /\ \E ttl \in RefreshOptions \ {refresh_ttl} :
       L2Run(uploaded_file, ttl, FALSE, "select")

\* the user puts another file into the uploader
L2_Upload ==
  /\ entry = "level2" /\ pc = "rendered"
  /\ \E f \in DashUploads \ {uploaded_file} :
       L2Run(f, refresh_ttl, FALSE, "upload")

\* time passes
Tick ==
  /\ entry = "level2" /\ pc = "rendered"
  /\ now + TickStep <= MaxTime
  /\ now' = now + TickStep
  /\ UNCHANGED <<entry, market, pc, PORTFOLIO, portfolio_data, uploaded_file,
                 refresh_ttl, cache, realtime_df, button, fetches, trigger,
                 warnings, screen, agg>>

\* the quote source changes its answers
MarketMove ==
  /\ entry = "level2" /\ pc = "rendered"
  /\ market' \in DashMarkets \ {market}
  /\ UNCHANGED <<entry, pc, PORTFOLIO, portfolio_data, uploaded_file,
                 refresh_ttl, now, cache, realtime_df, button, fetches, trigger,
                 warnings, screen, agg>>

NextDash ==
  \/ L2_App
  \/ L2_Rerun
  \/ L2_ManualRefresh
  \/ L2_SelectInterval
  \/ L2_Upload
  \/ Tick
  \/ MarketMove

SpecDash == InitDash /\ [][NextDash]_vars

\* ------------------------------------------------------------ properties
\* the calculation step of the script has returned (it has not raised)
Calculated ==
  \/ entry = "level1" /\ pc \in {"summarised", "done"} /\ screen # "error"
  \/ entry = "level2" /\ pc = "rendered"

\* the script has finished its run
Finished ==
  \/ entry = "level1" /\ pc = "done"
  \/ entry = "level2" /\ pc = "rendered"

\* the rows of the result table
Rows == IF entry = "level1" THEN portfolio_data.rows ELSE realtime_df.rows

\* the holdings of the input, with the ticker in canonical form
Holdings ==
  IF entry = "level1" THEN PORTFOLIO
  ELSE [i \in DOMAIN uploaded_file.lines |->
          [ticker |-> UpperStrip(uploaded_file.lines[i].ticker),
           shares |-> uploaded_file.lines[i].shares,
           avg_cost |-> uploaded_file.lines[i].avg_cost]]

\* the quote holds a current price in one of the two provider fields
HasCurrentPrice(q) ==
  ~q.fails /\ (NotNa(q.currentPrice) \/ NotNa(q.regularMarketPrice))

HasPreviousClose(q) == ~q.fails /\ NotNa(q.previousClose)

\* the holding contributed a row
RowOf(h, r) == r.Ticker = h.ticker /\ r.Shares = h.shares

\* a quote both scripts read the same way: the symbol and both price fields
\* are there
PlainQuote(q) ==
  ~q.fails /\ q.symbol /\ q.currentPrice > 0 /\ q.regularMarketPrice > 0

\* C1: a holding has a row in the result table only if its quote holds a
\* current price and a previous close and its shares are positive, and no
\* row of the table carries an absent or null price or a non-positive share
\* count.
C1_OnlyCompleteHoldingsContribute ==
  Calculated =>
    /\ \A i \in DOMAIN Holdings :
         (\E k \in DOMAIN Rows : RowOf(Holdings[i], Rows[k])) =>
           /\ HasCurrentPrice(market[Holdings[i].ticker])
           /\ HasPreviousClose(market[Holdings[i].ticker])
           /\ Holdings[i].shares > 0
    /\ \A k \in DOMAIN Rows :
         /\ \E i \in DOMAIN Holdings : RowOf(Holdings[i], Rows[k])
         /\ Rows[k].Shares > 0
         /\ NotNa(Rows[k].CurrentPrice)
         /\ NotNa(IF entry = "level1" THEN Rows[k].PrevClose ELSE Rows[k].PreviousClose)

C1_Witness ==
  /\ entry = "level1" /\ pc = "summarised"
  /\ Len(PORTFOLIO) = 2 /\ Len(Rows) = 1
  /\ \E i \in DOMAIN PORTFOLIO :
       /\ PORTFOLIO[i].shares = 0
       /\ PlainQuote(market[PORTFOLIO[i].ticker])
       /\ market[PORTFOLIO[i].ticker].previousClose > 0

\* C2: a holding with positive shares whose quote holds a current price and a
\* previous close of 0 ends in a computation error: it has no row, it is
\* reported as an error, and it is not reported by the missing-data warning.
C2_ZeroPreviousCloseIsAnError ==
  Calculated =>
    \A i \in DOMAIN Holdings :
      ( /\ Holdings[i].shares > 0
        /\ PlainQuote(market[Holdings[i].ticker])
        /\ market[Holdings[i].ticker].previousClose = 0 ) =>
        /\ ~ \E k \in DOMAIN Rows : Rows[k].Ticker = Holdings[i].ticker
        /\ \E w \in DOMAIN warnings :
             warnings[w].ticker = Holdings[i].ticker /\ warnings[w].kind = "error"
        /\ ~ \E w \in DOMAIN warnings :
             /\ warnings[w].ticker = Holdings[i].ticker
             /\ warnings[w].kind \in {"incomplete", "missing"}

\* the holdings the calculation step iterates over
Handed ==
  IF entry = "level1" THEN PORTFOLIO ELSE parse_portfolio_input(uploaded_file).df

\* C3: when every holding handed to the calculation is skipped, or there is
\* none, the result is None, the run shows a no-data message and no
\* aggregate; when a holding is not skipped the result is a non-empty table.
C3_NoValidDataIsSignalled ==
  /\ Calculated /\ Len(warnings) = Len(Handed) =>
       /\ (IF entry = "level1" THEN portfolio_data ELSE realtime_df) = NoTable
       /\ ~agg.shown
       /\ Finished => screen \in {"no_data", "upload_prompt"}
       /\ Finished /\ Handed # <<>> => screen = "no_data"
  /\ Calculated /\ Len(warnings) < Len(Handed) =>
       /\ ~(IF entry = "level1" THEN portfolio_data ELSE realtime_df).none
       /\ Rows # <<>>
       /\ Finished => agg.shown /\ screen \in {"aggregate", "dashboard"}
  /\ agg.shown => Rows # <<>>

C3_Witness ==
  /\ entry = "level1" /\ pc = "done"
  /\ Len(PORTFOLIO) = 2 /\ Len(warnings) = 2
  /\ screen = "no_data"

\* a holding every reading of the specification includes: positive shares and
\* a plain quote with a positive previous close
Valid(h) ==
  /\ h.shares > 0
  /\ PlainQuote(market[h.ticker])
  /\ market[h.ticker].previousClose > 0

\* C4: when the quote source fails for one ticker, every other holding with a
\* valid quote still has its row in the output, and the run reports total
\* failure only when the source failed for every ticker.
C4_OneFailureDoesNotAbortTheOthers ==
  Finished =>
    \A i, j \in DOMAIN Holdings :
      market[Holdings[i].ticker].fails /\ Valid(Holdings[j]) =>
        /\ \E k \in DOMAIN Rows : RowOf(Holdings[j], Rows[k])
        /\ screen # "error"

\* number of positions of a sequence that satisfy a test
CountRows(t) == Cardinality({ k \in DOMAIN Rows : Rows[k].Ticker = t })
CountHoldings(t) == Cardinality({ i \in DOMAIN Holdings : Holdings[i].ticker = t })
CountWarnings(t) == Cardinality({ w \in DOMAIN warnings : warnings[w].ticker = t })

\* C5: in a run where the quote source answers for every ticker, each holding
\* of the input that has no row has exactly one skip warning, and that warning
\* names the holding's own ticker: per ticker the warnings are as many as the
\* holdings without a row, and no warning names anything but an input ticker.
C5_EveryExcludedHoldingIsWarnedByName ==
  Finished /\ (\A i \in DOMAIN Holdings : ~market[Holdings[i].ticker].fails) =>
    /\ \A t \in Tickers : CountWarnings(t) = CountHoldings(t) - CountRows(t)
    /\ \A w \in DOMAIN warnings :
         \E i \in DOMAIN Holdings : Holdings[i].ticker = warnings[w].ticker

\* C6: the portfolio handed to the calculation holds each canonical ticker at
\* most once, with the shares and the cost of the last input row of that
\* ticker, and the result table lists no ticker twice.
C6_OneHoldingPerTicker ==
  Finished =>
    /\ \A i, j \in DOMAIN Handed :
         i # j => Handed[i][IF entry = "level1" THEN "ticker" ELSE "Ticker"]
                  # Handed[j][IF entry = "level1" THEN "ticker" ELSE "Ticker"]
    /\ \A k, l \in DOMAIN Rows : k # l => Rows[k].Ticker # Rows[l].Ticker
    /\ \A k \in DOMAIN Rows :
         \A i \in DOMAIN Holdings :
           ( /\ Holdings[i].ticker = Rows[k].Ticker
             /\ \A j \in DOMAIN Holdings :
                  j > i => Holdings[j].ticker # Rows[k].Ticker ) =>
             Rows[k].Shares = Holdings[i].shares

\* the fraction p is the quotient n / d times 100
IsPercentOf(p, n, d) == d # 0 /\ p[2] # 0 /\ p[1] * d = n * 100 * p[2]

\* C7: every row of the result table carries the reference figures of its
\* holding and quote: value = price * shares, cost = avg_cost * shares, daily
\* change = (price - previous close) * shares, P/L = value - cost, and the P/L
\* percentage is P/L / cost * 100 when the cost is positive and 0 when it is 0.
C7_RowsFollowTheFormulas ==
  Calculated =>
    \A k \in DOMAIN Rows :
      \E i \in DOMAIN Holdings :
        LET h == Holdings[i]
            q == market[h.ticker]
            r == Rows[k]
            prev == IF entry = "level1" THEN r.PrevClose ELSE r.PreviousClose
            daily == IF entry = "level1" THEN r.DailyChange ELSE r.DailyGainLoss
        IN /\ RowOf(h, r)
           /\ r.CurrentPrice \in {q.currentPrice, q.regularMarketPrice}
           /\ r.CurrentPrice >= 0
           /\ prev = q.previousClose /\ prev # 0
           /\ r.CurrentValue = r.CurrentPrice * h.shares
           /\ r.TotalCost = h.avg_cost * h.shares
           /\ daily = (r.CurrentPrice - prev) * h.shares
           /\ r.TotalPL = r.CurrentValue - r.TotalCost
           /\ r.TotalCost > 0 => IsPercentOf(r.TotalPLPct, r.TotalPL, r.TotalCost)
           /\ h.avg_cost = 0 => r.TotalPLPct[1] = 0 /\ r.TotalPLPct[2] # 0

C7_Witness ==
  /\ entry = "level2" /\ pc = "rendered"
  /\ \E k, l \in DOMAIN Rows :
       /\ Rows[k].Avg_Cost = 0 /\ Rows[k].DailyGainLoss < 0
       /\ Rows[l].TotalCost > 0 /\ Rows[l].TotalPL < 0

\* the rows of a table in another order
Reordered(rows, f) == [k \in DOMAIN rows |-> rows[f[k]]]

\* C8: the aggregates shown (total value, total cost, total daily gain, total
\* P/L, total previous value and the portfolio daily percentage, 0 when the
\* total previous value is not positive) are those of every reordering of the
\* rows of the result table.
C8_AggregatesIgnoreRowOrder ==
  agg.shown =>
    \A f \in Permutations(DOMAIN Rows) :
      agg = (IF entry = "level1" THEN L1Aggregate(Reordered(Rows, f))
                                 ELSE L2Aggregate(Reordered(Rows, f)))

C8_Witness ==
  /\ agg.shown /\ entry = "level1"
  /\ Len(Rows) = 2
  /\ Rows[1].CurrentValue # Rows[2].CurrentValue
  /\ Rows[1].DailyChange # Rows[2].DailyChange
  /\ agg.total_value = Rows[1].CurrentValue + Rows[2].CurrentValue

\* the table the run after this step hands to the cached fetch
NextKey == parse_portfolio_input(uploaded_file').df

\* before the step the store of the interval selected in the step holds an
\* entry of that table that has not expired
LiveEntry(e) ==
  /\ cache.ttl = refresh_ttl'
  /\ e \in cache.entries
  /\ e.key = NextKey
  /\ now < e.expires

\* a step that is a run of the script over a non-empty holdings table
RunStep == pc' = "rendered" /\ now' = now /\ market' = market /\ NextKey # <<>>

C10_ManualRefreshAlwaysAvailable ==
  entry = "level2" /\ pc = "rendered"
    /\ parse_portfolio_input(uploaded_file).df # <<>> => button

\* C11: both scripts resolve the same current price from a quote whose
\* currentPrice and regularMarketPrice are each absent, null or a positive
\* number, and a holding with positive shares and a positive previous close is
\* skipped for its price only when neither field holds a value: when one does,
\* the holding has a row, and the price of the row is the price the console
\* tracker resolves and the price the dashboard resolves.
C11_SamePriceInBothScripts ==
  Calculated =>
    \A i \in DOMAIN Holdings :
      LET h == Holdings[i]
          q == market[h.ticker]
      IN ( /\ h.shares > 0
           /\ ~q.fails /\ q.symbol
           /\ q.previousClose > 0
           /\ HasCurrentPrice(q) ) =>
           /\ \E k \in DOMAIN Rows : RowOf(h, Rows[k])
           /\ \A k \in DOMAIN Rows :
                RowOf(h, Rows[k]) =>
                  /\ Rows[k].CurrentPrice = L1CurrentPrice(q)
                  /\ Rows[k].CurrentPrice = L2CurrentPrice(q)

====
